---- MODULE Spec2Model ----
(***************************************************************************)
(* The registry update pass of oh-my-antigravity (src/src/cli.ts):        *)
(* update(), fetchRemoteManifest(), getLocalVersion(), saveLocalVersion(), *)
(* downloadFile() and the pMap call that runs the per-file units; and the  *)
(* interactive installer: main(), installShared() and installSkill().      *)
(*                                                                         *)
(* update() is modelled as the function it is, called with the module     *)
(* constants (REPO) initialised.                                           *)
(*                                                                         *)
(* Texts and byte strings are sequences of tokens.  A token is one         *)
(* character or, inside a JSON document, one lexical element.  UTF-8       *)
(* encoding maps a character to its own bytes, so a well-formed text and   *)
(* its encoding are the same sequence; "BOM" is U+FEFF / EF BB BF.         *)
(* JavaScript values are tagged records.                                   *)
(***************************************************************************)
EXTENDS Integers, Sequences, FiniteSets, TLC

\* ---------------------------------------------------------------- bounds
MaxFiles == 2        \* longest manifest file list drawn freely
MaxRuns == 2         \* invocations of the program in one behaviour
PoolExtra == 1       \* files beyond the concurrency limit in the long manifest

\* ------------------------------------------------------------- constants
CONCURRENCY == 10    \* pMap(..., { concurrency: 10 })

\* ------------------------------------------------------------- JS values
Null == [type |-> "null"]
Undefined == [type |-> "undefined"]
Str(s) == [type |-> "string", s |-> s]

\* the operand test of `a || b`
Truthy(v) == v \notin {Null, Undefined, Str("")}

\* ----------------------------------------------------------------- paths
\* a path is <<directory, base name>>
versionFile == <<".agent/skills", "_version.json">>
dirname(path) == path[1]

\* path normalisation: a leading "." segment is dropped.  join(cwd, path)
\* names the file, and the URL parser does the same to the path of a URL.
normalize(dir) == IF dir = "./docs" THEN "docs" ELSE dir
join(path) == <<normalize(path[1]), path[2]>>

\* the relative paths manifests list; the last is another spelling of the
\* third
FreePathList == <<versionFile, <<".agent/skills", "a.md">>, <<"docs", "b.md">>,
                  <<"./docs", "b.md">>>>
FreePaths == {join(FreePathList[k]) : k \in DOMAIN FreePathList}
PoolNames == <<"p01", "p02", "p03", "p04", "p05", "p06", "p07", "p08",
               "p09", "p10", "p11", "p12", "p13", "p14", "p15", "p16">>
PoolPath(i) == <<"pool", PoolNames[i]>>
PoolSize == CONCURRENCY + PoolExtra
Paths == FreePaths \cup {PoolPath(i) : i \in 1..PoolSize}

\* ------------------------------------------------------- text and digest
BOM == "BOM"

\* Response.text(): UTF-8 decode, which drops one leading byte order mark
utf8Decode(bytes) ==
  IF Len(bytes) > 0 /\ Head(bytes) = BOM THEN Tail(bytes) ELSE bytes

\* createHash("sha256").update(content, "utf-8").digest("hex"): the digest
\* of the encoding of content, in lowercase hex.  SHA-256 is taken to be
\* injective.
calculateSHA256(content) == [of |-> content, upper |-> FALSE]

\* the same digest spelled with uppercase hex digits
UpperHex(hex) == [of |-> hex.of, upper |-> TRUE]

\* JSON.stringify({ version }, null, 2)
JSONstringify(version) ==
  IF version = Undefined THEN <<"{}">>
  ELSE IF version = Null THEN <<"{version:", "null", "}">>
  ELSE <<"{version:", "str", version.s, "}">>

\* JSON.parse(content).version; SyntaxError when content is no JSON text
SyntaxError == [type |-> "SyntaxError"]
JSONparseVersion(content) ==
  IF content = <<"{}">> THEN Undefined
  ELSE IF content = <<"{version:", "null", "}">> THEN Null
  ELSE IF Len(content) = 4 /\ content[1] = "{version:" /\ content[2] = "str"
          /\ content[4] = "}"
    THEN Str(content[3])
  ELSE SyntaxError

\* ----------------------------------------------------------------- state
VARIABLES
  manifest,        \* registry: the published prompt-manifest.json
  serve,           \* registry: path -> the response to a GET of that file
  fs,              \* local files: existing path -> content
  dirs,            \* local directories that exist
  run,             \* invocations of update() so far
  pc,              \* position of the current pass
  failure,         \* where a failed pass threw
  exitCode,        \* process exit status of the current invocation
  remoteManifest,  \* update(): const remoteManifest
  localVersion,    \* update(): const localVersion
  readThrew,       \* observer: readFileSync threw in getLocalVersion
  install,         \* main(): the interactive installer's invocation
  unit,            \* pMap: state of the mapper call of each file index
  results,         \* pMap: the values the mapper calls returned
  fetches,         \* observer: fetch(url) calls made for each file index
  manifestFetches, \* observer: fetch calls for the manifest in this pass
  written,         \* observer: writeFileSync calls that succeeded in this pass
  fs0,             \* observer: fs when the current pass began
  prev             \* observer: how the previous pass ended

vars == <<manifest, serve, fs, dirs, run, pc, failure, exitCode, remoteManifest,
          localVersion, readThrew, install, unit, results, fetches,
          manifestFetches, written, fs0, prev>>

registry == <<manifest, serve>>

\* ------------------------------------------------------------ local store
existsSync(files, path) == path \in DOMAIN files

\* readFileSync of an existing file returns its content (TRUE) or throws
\* (FALSE: the file cannot be read)
Reads(files, path) == IF existsSync(files, path) THEN BOOLEAN ELSE {TRUE}
EACCES == [type |-> "EACCES"]

\* (mutant) getLocalVersion without its try/catch: the error comes out
getLocalVersion_uncaught(files, reads) ==
  IF ~existsSync(files, versionFile) THEN Null
  ELSE IF ~reads THEN EACCES
  ELSE LET version == JSONparseVersion(files[versionFile])
       IN IF version = SyntaxError THEN SyntaxError
          ELSE IF Truthy(version) THEN version ELSE Null

\* getLocalVersion(targetDir) over the files `files`, readFileSync
\* returning the content or throwing as `reads` says
getLocalVersion(files, reads) ==
  IF ~existsSync(files, versionFile) THEN Null
  ELSE IF ~reads THEN Null
  ELSE LET version == JSONparseVersion(files[versionFile])
       IN IF version = SyntaxError THEN Null
          ELSE IF Truthy(version) THEN version ELSE Null

\* the file saveLocalVersion(targetDir, version) writes
VersionDocument(version) == JSONstringify(version)

\* -------------------------------------------------------------- registry
X == <<"x">>
Y == <<"y">>
NotFound == [status |-> 404, body |-> <<>>]
Ok(body) == [status |-> 200, body |-> body]

\* what the registry holds for one path: its response and the sha256 the
\* manifest declares for it
Missing    == [resp |-> NotFound,         sha256 |-> calculateSHA256(X)]
Intact     == [resp |-> Ok(X),            sha256 |-> calculateSHA256(X)]
Altered    == [resp |-> Ok(Y),            sha256 |-> calculateSHA256(X)]
WithBOM    == [resp |-> Ok(<<BOM>> \o X), sha256 |-> calculateSHA256(X)]
UpperCased == [resp |-> Ok(X),            sha256 |-> UpperHex(calculateSHA256(X))]

Published(path) ==
  IF path = versionFile THEN {Missing, Intact}
  ELSE IF path = FreePathList[2] THEN {Missing, Intact, Altered, WithBOM, UpperCased}
  ELSE {Missing, Intact, Altered}

Range(seq) == {seq[i] : i \in DOMAIN seq}

\* the file lists drawn: the units of a pass do not depend on each other's
\* position, so one order of each choice of paths is drawn
PathLists ==
  UNION { { [i \in 1..n |-> FreePathList[ks[i]]] :
              ks \in {f \in [1..n -> DOMAIN FreePathList] :
                        \A i \in 1..n, j \in 1..n : i <= j => f[i] <= f[j]} } :
          n \in 0..MaxFiles }

\* the files the paths `ps` name
Resources(ps) == {join(ps[i]) : i \in DOMAIN ps}

\* the registry that publishes the paths `ps`, their files being as `pub`
\* describes them
ManifestOf(version, ps, pub) ==
  [version |-> version,
   files |-> [i \in DOMAIN ps |->
                [path |-> ps[i], sha256 |-> pub[join(ps[i])].sha256]]]
ServeOf(ps, pub) ==
  [p \in Paths |-> IF p \in Resources(ps) THEN pub[p].resp ELSE NotFound]

\* the long manifest: more files than the concurrency limit; the second is
\* served, the others are missing
PoolList == [i \in 1..PoolSize |-> PoolPath(i)]
PoolPublished ==
  [p \in Range(PoolList) |->
     IF p = PoolPath(2)
THEN Intact ELSE Missing]

\* the manifest version and the marker file (none, or its content) before the
\* first pass: nothing installed, an older version installed, the same
\* version installed, a garbage marker, the empty version string, and a
\* manifest without a version
Installations ==
  { [version |-> Str("1.3.0"), marker |-> <<>>],
    [version |-> Undefined,    marker |-> <<>>],
    [version |-> Str("1.3.0"), marker |-> <<VersionDocument(Str("1.2.0"))>>],
    [version |-> Str("1.2.0"), marker |-> <<VersionDocument(Str("1.2.0"))>>],
    [version |-> Str("1.3.0"), marker |-> <<Y>>],
    [version |-> Str(""),      marker |-> <<>>] }

NoManifest == [version |-> Undefined, files |-> <<>>]
\* what threw, and in which mapper call (0: in update() itself)
NoFailure == [kind |-> "none", unit |-> 0]
Thrown(kind, i) == [kind |-> kind, unit |-> i]
ManifestFailures == {"manifest unreachable", "manifest status", "manifest body"}
UnitFailures == {"fetch rejected", "body rejected", "write threw"}
NoPrev == "none"
\* no installer is running, and none has run since update() was last called
NotInstalling ==
  [state |-> "none", todo |-> <<>>, marker0 |-> <<>>, exitCode |-> -1, count |-> 0]

InitLocal(marker) ==
  /\ fs = [p \in {versionFile : k \in DOMAIN marker} |-> marker[1]]
  /\ dirs = {"."} \cup {dirname(versionFile) : k \in DOMAIN marker}
  /\ run = 0
  /\ pc = "Idle"
  /\ failure = NoFailure
  /\ exitCode = -1
  /\ remoteManifest = NoManifest
  /\ localVersion = Null
  /\ readThrew = FALSE
  /\ install = NotInstalling
  /\ unit = <<>>
  /\ results = <<>>
  /\ fetches = <<>>
  /\ manifestFetches = 0
  /\ written = {}
  /\ fs0 = fs
  /\ prev = NoPrev

Init ==
  \/ \E inst \in Installations, ps \in PathLists :
       \E pub \in {f \in [Resources(ps) -> UNION {Published(p) : p \in Resources(ps)}] :
                      \A p \in Resources(ps) : f[p] \in Published(p)} :
         /\ manifest = ManifestOf(inst.version, ps, pub)
         /\ serve = ServeOf(ps, pub)
         /\ InitLocal(inst.marker)
  \/ /\ manifest = ManifestOf(Str("1.3.0"), PoolList, PoolPublished)
     /\ serve = ServeOf(PoolList, PoolPublished)
     /\ InitLocal(<<>>)

\* ------------------------------------------------------------------ pMap
Min(a, b) == IF a < b THEN a ELSE b

\* (mutant) every item is given to the mapper at once
InitialBatch_all(n) == 1..n

\* the mapper calls pMap makes at once: the first `concurrency` items
InitialBatch(n) == 1..Min(n, CONCURRENCY)

InFlight(u) == {i \in DOMAIN u : u[i] \in {"fetching", "reading"}}
Pending(u) == {i \in DOMAIN u : u[i] = "pending"}

\* (mutant) the iterator starts over instead of advancing
StartNext_over(u) ==
  IF Pending(u) = {} THEN u
  ELSE [u EXCEPT ![1] = "fetching"]

\* pMap's next(): when a mapper call settles, the next item of the iterator
\* is given to the mapper
StartNext(u) ==
  IF Pending(u) = {} THEN u
  ELSE LET i == CHOOSE j \in Pending(u) : \A k \in Pending(u) : j <= k
       IN [u EXCEPT ![i] = "fetching"]

\* ------------------------------------------------------ update(): the end
Terminal == {"UpToDate", "Reconciled", "Failed"}

\* update() lines 209-228 once pMap has resolved: report, saveLocalVersion,
\* outro.  saveLocalVersion throws when mkdirSync or writeFileSync does.
Reconcile(version, files, folders, log) ==
  \/ /\ fs' = (versionFile :> VersionDocument(version)) @@ files
     /\ dirs' = folders \cup {dirname(versionFile)}
     /\ written' = log \cup {[path |-> versionFile, by |-> 0]}
     /\ pc' = "Reconciled"
     /\ failure' = NoFailure
     /\ exitCode' = 0
  \/ /\ fs' = files
     /\ dirs' \in {folders, folders \cup {dirname(versionFile)}}
     /\ written' = log
     /\ pc' = "Failed"
     /\ failure' = Thrown("marker write threw", 0)
     /\ exitCode' = 1

\* update() lines 229-233: the catch block
Catch(error) ==
  /\ pc' = "Failed"
  /\ failure' = error
  /\ exitCode' = 1

\* mapper call i returned `outcome`, leaving the files, folders and log given
Return(i, outcome, files, folders, log) ==
  LET settled == [unit EXCEPT ![i] = "done"]
      next == StartNext(settled)
  IN /\ results' = (i :> outcome) @@ results
     /\ unit' = next
     /\ fetches' = [j \in DOMAIN fetches |->
                      IF next[j] # settled[j] THEN fetches[j] + 1 ELSE fetches[j]]
     /\ IF \A j \in DOMAIN next : next[j] = "done"
          THEN Reconcile(remoteManifest.version, files, folders, log)
          ELSE /\ fs' = files
               /\ dirs' = folders
               /\ written' = log
               /\ UNCHANGED <<pc, failure, exitCode>>

\* mapper call i threw: pMap rejects, update() catches and exits
Throw(i, kind, folders) ==
  /\ Catch(Thrown(kind, i))
  /\ dirs' = folders
  /\ UNCHANGED <<fs, written, unit, results, fetches>>

\* --------------------------------------------------------------- actions
\* update() is called (line 18); it runs to `await fetchRemoteManifest()`
Invoke ==
  /\ pc \in {"Idle"} \cup Terminal
  /\ install.state # "running"
  /\ run < MaxRuns
  /\ run' = run + 1
  /\ pc' = "ManifestFetch"
  /\ failure' = NoFailure
  /\ exitCode' = -1
  /\ remoteManifest' = NoManifest
  /\ localVersion' = Null
  /\ readThrew' = FALSE
  /\ install' = [install EXCEPT !.state = "none", !.todo = <<>>]
  /\ unit' = <<>>
  /\ results' = <<>>
  /\ fetches' = <<>>
  /\ manifestFetches' = 1
  /\ written' = {}
  /\ fs0' = fs
  /\ prev' = IF pc = "Idle" THEN NoPrev ELSE pc
  /\ UNCHANGED <<registry, fs, dirs>>

\* (mutant) the marker is saved although fetchRemoteManifest() threw
ManifestFails_saved ==
  /\ pc = "ManifestFetch"
  /\ \E why \in ManifestFailures : Catch(Thrown(why, 0))
  /\ fs' = (versionFile :> VersionDocument(manifest.version)) @@ fs
  /\ dirs' = dirs \cup {dirname(versionFile)}
  /\ written' = {[path |-> versionFile, by |-> 0]}
  /\ UNCHANGED <<registry, run, remoteManifest, localVersion, readThrew,
                 install, unit,
                 results, fetches, manifestFetches, fs0, prev>>

\* fetchRemoteManifest() throws: fetch rejects, the status is not ok, or
\* res.json() rejects
ManifestFails ==
  /\ pc = "ManifestFetch"
  /\ \E why \in ManifestFailures : Catch(Thrown(why, 0))
  /\ UNCHANGED <<registry, fs, dirs, run, remoteManifest, localVersion, readThrew,
                 install, unit,
                 results, fetches, manifestFetches, written, fs0, prev>>

\* (mutant) the local version compared with the manifest, not its version
SameVersion_object(local, version) == local = [version |-> version]

\* line 195: localVersion === remoteManifest.version
SameVersion(local, version) == local = version

\* lines 192-199: the manifest arrives and the local version equals its version
AlreadyUpToDate ==
  /\ pc = "ManifestFetch"
  /\ \E reads \in Reads(fs, versionFile) :
       /\ SameVersion(getLocalVersion(fs, reads), manifest.version)
       /\ localVersion' = getLocalVersion(fs, reads)
       /\ readThrew' = ~reads
  /\ remoteManifest' = manifest
  /\ pc' = "UpToDate"
  /\ exitCode' = 0
  /\ UNCHANGED <<registry, fs, dirs, run, failure, install, unit, results,
                 fetches, manifestFetches, written, fs0, prev>>

\* lines 192-207: the manifest arrives, the versions differ, pMap starts the
\* first mapper calls, each of which runs to `await fetch(url)`
BeginTransfer ==
  /\ pc = "ManifestFetch"
  /\ \E reads \in Reads(fs, versionFile) :
       /\ ~SameVersion(getLocalVersion(fs, reads), manifest.version)
       /\ localVersion' = getLocalVersion(fs, reads)
       /\ readThrew' = ~reads
  /\ remoteManifest' = manifest
  /\ LET n == Len(manifest.files)
     IN /\ unit' = [i \in 1..n |->
                      IF i \in InitialBatch(n) THEN "fetching" ELSE "pending"]
        /\ fetches' = [i \in 1..n |-> IF i \in InitialBatch(n) THEN 1 ELSE 0]
        /\ results' = <<>>
        /\ IF n = 0
             THEN Reconcile(manifest.version, fs, dirs, written)
             ELSE /\ pc' = "Transferring"
                  /\ UNCHANGED <<fs, dirs, written, failure, exitCode>>
  /\ UNCHANGED <<registry, run, install, manifestFetches, fs0, prev>>

\* ------------------------------------------------- downloadFile(), by step
Entry(i) == remoteManifest.files[i]
\* line 157-158: the response to fetch(url)
Response(i) == serve[join(Entry(i).path)]

HttpError(path, status) ==
  [path |-> path, success |-> FALSE, error |-> [kind |-> "HTTP", status |-> status]]
Mismatch(path) ==
  [path |-> path, success |-> FALSE, error |-> [kind |-> "SHA256 mismatch"]]
Success(path) == [path |-> path, success |-> TRUE]

\* line 164: const content = await res.text()
Content(i) == utf8Decode(Response(i).body)

\* line 167: actualSHA256 !== manifestFile.sha256
Differs(actualSHA256, sha256) == actualSHA256 # sha256

Frame == UNCHANGED <<registry, run, remoteManifest, localVersion, readThrew,
                    install,
                     manifestFetches, fs0, prev>>

\* line 158: fetch(url) rejects (no response); downloadFile throws
FetchRejects(i) ==
  /\ pc = "Transferring" /\ unit[i] = "fetching"
  /\ Throw(i, "fetch rejected", dirs)
  /\ Frame

\* lines 160-162: the response is not ok
FetchNotOk(i) ==
  /\ pc = "Transferring" /\ unit[i] = "fetching"
  /\ Response(i).status # 200
  /\ Return(i, HttpError(Entry(i).path, Response(i).status), fs, dirs, written)
  /\ Frame

\* lines 160-164: the response is ok; the unit awaits the body
FetchOk(i) ==
  /\ pc = "Transferring" /\ unit[i] = "fetching"
  /\ Response(i).status = 200
  /\ unit' = [unit EXCEPT ![i] = "reading"]
  /\ UNCHANGED <<fs, dirs, pc, failure, exitCode, results, fetches, written>>
  /\ Frame

\* line 164: res.text() rejects; downloadFile throws
BodyRejects(i) ==
  /\ pc = "Transferring" /\ unit[i] = "reading"
  /\ Throw(i, "body rejected", dirs)
  /\ Frame

\* lines 164-169: the body arrives and its digest is not the declared one
HashMismatch(i) ==
  /\ pc = "Transferring" /\ unit[i] = "reading"
  /\ Differs(calculateSHA256(Content(i)), Entry(i).sha256)
  /\ Return(i, Mismatch(Entry(i).path), fs, dirs, written)
  /\ Frame

\* lines 164-179: the body arrives, its digest is the declared one, the file
\* is written
WriteFile(i) ==
  /\ pc = "Transferring" /\ unit[i] = "reading"
  /\ ~Differs(calculateSHA256(Content(i)), Entry(i).sha256)
  /\ LET targetPath == join(Entry(i).path)
     IN Return(i, Success(targetPath),
               (targetPath :> Content(i)) @@ fs,
               dirs \cup {dirname(targetPath)},
               written \cup {[path |-> targetPath, by |-> i]})
  /\ Frame

\* lines 171-178: mkdirSync or writeFileSync throws; downloadFile throws
WriteThrows(i) ==
  /\ pc = "Transferring" /\ unit[i] = "reading"
  /\ ~Differs(calculateSHA256(Content(i)), Entry(i).sha256)
  /\ \E made \in {dirs, dirs \cup {dirname(join(Entry(i).path))}} :
       Throw(i, "write threw", made)
  /\ Frame

Next ==
  \/ Invoke
  \/ ManifestFails
  \/ AlreadyUpToDate
  \/ BeginTransfer
  \/ \E i \in DOMAIN unit : FetchRejects(i)
  \/ \E i \in DOMAIN unit : FetchNotOk(i)
  \/ \E i \in DOMAIN unit : FetchOk(i)
  \/ \E i \in DOMAIN unit : BodyRejects(i)
  \/ \E i \in DOMAIN unit : HashMismatch(i)
  \/ \E i \in DOMAIN unit : WriteFile(i)
  \/ \E i \in DOMAIN unit : WriteThrows(i)

Spec == Init /\ [][Next]_vars

\* ------------------------------------------------------------------ types
TypeOK ==
  /\ pc \in {"Idle", "ManifestFetch", "Transferring"} \cup Terminal
  /\ run \in 0..MaxRuns
  /\ exitCode \in {-1, 0, 1}
  /\ failure.kind \in {"none", "marker write threw"} \cup ManifestFailures \cup UnitFailures
  /\ (pc = "Failed") = (failure # NoFailure)
  /\ (pc = "Failed") = (exitCode = 1)
  /\ DOMAIN results \subseteq DOMAIN unit
  /\ \A p \in DOMAIN fs : dirname(p) \in dirs

\* ================================================================ claims
\* the marker file of `files`: <<>> when there is none, else <<its content>>
Marker(files) ==
  IF existsSync(files, versionFile) THEN <<files[versionFile]>> ELSE <<>>

\* mapper call i made a writeFileSync call that succeeded
WroteBy(i) == \E w \in written : w.by = i

\* the SHA-256 of a byte string, in lowercase hex
SHA256OfBytes(bytes) == [of |-> bytes, upper |-> FALSE]

\* the writes of the marker file in this pass
MarkerWrites == {w \in written : w.path = versionFile}
SavedByUpdate == [path |-> versionFile, by |-> 0]

\* C1: a transfer unit writes its target path only if the digest of the
\* bytes it fetched equals the declared hash; when the digest differs the
\* unit writes nothing and returns a hash-mismatch failure.
C1_WritesOnlyBytesWithDeclaredDigest ==
  \A i \in DOMAIN unit :
    (unit[i] = "done" /\ Response(i).status = 200) =>
      /\ WroteBy(i) => SHA256OfBytes(Response(i).body) = Entry(i).sha256
      /\ SHA256OfBytes(Response(i).body) # Entry(i).sha256 =>
           (~WroteBy(i) /\ results[i] = Mismatch(Entry(i).path))

\* C2: a pass that transfers returns one outcome per manifest file, N
\* successes and M failures with N + M the number of files, and leaves the
\* marker at the manifest's version, whatever M is.
C2_OneOutcomePerFileAndMarkerAdvances ==
  (/\ pc \in {"Reconciled", "Failed"}
   /\ failure.kind \notin ManifestFailures \cup {"marker write threw"}) =>
    LET N == Cardinality({i \in DOMAIN results : results[i].success})
        M == Cardinality({i \in DOMAIN results : ~results[i].success})
    IN /\ DOMAIN results = 1..Len(remoteManifest.files)
       /\ N + M = Len(remoteManifest.files)
       /\ Marker(fs) = <<VersionDocument(remoteManifest.version)>>

\* C3: a file fetch that gets no response does not raise: the file gets a
\* failed outcome, every other file is still processed and the pass ends by
\* writing the marker.
C3_FetchRejectionIsAFailedOutcome ==
  \A i \in DOMAIN unit :
    (pc \in Terminal /\ failure = Thrown("fetch rejected", i)) =>
      /\ i \in DOMAIN results /\ ~results[i].success
      /\ DOMAIN results = DOMAIN unit
      /\ SavedByUpdate \in written

\* C4: a failing write of a verified file (or of its directory) is a failed
\* outcome of that file only: every other file still gets its outcome and
\* the pass ends by writing the marker.
C4_WriteErrorIsAFailedOutcome ==
  \A i \in DOMAIN unit :
    (pc \in Terminal /\ failure = Thrown("write threw", i)) =>
      /\ i \in DOMAIN results /\ ~results[i].success
      /\ DOMAIN results = DOMAIN unit
      /\ SavedByUpdate \in written

\* C5: a file whose fetch returns a non-success status gets a failure
\* carrying the HTTP error and nothing is written at its path; the other
\* files get their outcomes and the marker is updated to the manifest's
\* version.
C5_HttpErrorIsLocal ==
  \A i \in DOMAIN unit :
    (/\ pc \in Terminal
     /\ failure.kind # "marker write threw"
     /\ unit[i] = "done"
     /\ Response(i).status # 200) =>
      /\ results[i] = HttpError(Entry(i).path, Response(i).status)
      /\ ~WroteBy(i)
      /\ DOMAIN results = DOMAIN unit
      /\ Marker(fs) = <<VersionDocument(remoteManifest.version)>>

C7_SecondPassIsANoOp ==
  (/\ prev = "Reconciled"
   /\ pc \notin {"Idle", "ManifestFetch"}
   /\ failure.kind \notin ManifestFailures) =>
    /\ pc = "UpToDate"
    /\ results = <<>> /\ fetches = <<>>
    /\ Marker(fs) = Marker(fs0)

\* C8: at every instant the transfer units started and not completed are at
\* most the concurrency limit.
C8_BoundedInFlight == Cardinality(InFlight(unit)) <= CONCURRENCY

\* C8 witness: a manifest longer than the limit, all of it started, and the
\* limit reached
C8_Witness ==
  /\ pc = "Transferring"
  /\ Len(unit) > CONCURRENCY
  /\ Pending(unit) = {}
  /\ Cardinality(InFlight(unit)) = CONCURRENCY

\* C9: while a unit of the pass has not completed, and after a pass
\* abandoned before the join, the marker holds its pre-pass value.
C9_MarkerUntouchedBeforeJoin ==
  (pc = "Transferring" \/ (pc = "Failed" /\ failure.kind \in UnitFailures)) =>
    Marker(fs) = Marker(fs0)

\* C10: in a pass that transfers, the marker file is written exactly once,
\* by update() itself; no transfer unit writes it.
C10_MarkerWrittenOnceByUpdate ==
  /\ \A w \in MarkerWrites : w.by = 0
  /\ pc = "Reconciled" => MarkerWrites = {SavedByUpdate}

\* the manifest lists no relative path twice
DistinctRelativePaths ==
  \A i, j \in DOMAIN remoteManifest.files :
    i # j => remoteManifest.files[i].path # remoteManifest.files[j].path

\* C11: within one pass no two transfer units write the same local target
\* path: the units of a manifest whose relative paths are pairwise distinct
\* write pairwise distinct files.
C11_UnitsOwnDisjointPaths ==
  DistinctRelativePaths =>
    \A v, w \in written :
      (v.by # 0 /\ w.by # 0 /\ v.by # w.by) => v.path # w.path

\* C12: when retrieving the manifest fails (registry unreachable, status not
\* ok, body not parsable) the pass is fatal and reported, and nothing local
\* is touched: no file content is fetched, no file is written, and the
\* marker is what it was before the pass.
C12_ManifestFailureTouchesNothing ==
  failure.kind \in ManifestFailures =>
    /\ pc = "Failed"
    /\ exitCode = 1
    /\ unit = <<>> /\ fetches = <<>> /\ results = <<>>
    /\ written = {}
    /\ fs = fs0
    /\ Marker(fs) = Marker(fs0)

\* a second pass fails at the manifest after a first one installed files
C12_Witness ==
  /\ failure.kind \in ManifestFailures
  /\ pc = "Failed"
  /\ prev = "Reconciled"
  /\ DOMAIN fs # {}

\* the manifest the registry publishes has no `version`
Malformed(m) == m.version = Undefined

\* C13: when the manifest response lacks version or files, or an entry lacks
\* its path or hash, the pass aborts with an error before any transfer: no
\* file is fetched or written, the marker is not written, and the pass is
\* not reported as up to date.
C13_MalformedManifestAborts ==
  (/\ pc \notin {"Idle", "ManifestFetch"}
   /\ failure.kind \notin ManifestFailures
   /\ Malformed(manifest)) =>
    /\ pc = "Failed"
    /\ unit = <<>> /\ fetches = <<>>
    /\ written = {}
    /\ fs = fs0

\* the marker file of `files` does not parse, or parses to no version
Corrupt(files) ==
  /\ existsSync(files, versionFile)
  /\ JSONparseVersion(files[versionFile]) \in {SyntaxError, Undefined, Null}

\* C14: reading the local version never fails: when the marker file is
\* absent, cannot be read or is corrupt, the read returns null, and the pass
\* goes on as if nothing were installed: it is not up to date, it transfers.
C14_LocalVersionReadNeverFails ==
  (pc \notin {"Idle", "ManifestFetch"} /\ failure.kind \notin ManifestFailures) =>
    /\ localVersion = Null \/ localVersion.type = "string"
    /\ (Marker(fs0) = <<>> \/ readThrew \/ Corrupt(fs0)) =>
         /\ localVersion = Null
         /\ remoteManifest.version # Null => pc # "UpToDate"

\* the marker holds the manifest's version and cannot be read: the pass
\* transfers
C14_Witness ==
  /\ pc = "Transferring"
  /\ readThrew
  /\ Marker(fs0) = <<VersionDocument(remoteManifest.version)>>
  /\ remoteManifest.version = Str("1.2.0")

\* two hex digests that differ at most in the case of their letters
EqualIgnoringCase(a, b) == a.of = b.of

\* C15: the digest comparison ignores the case of the hex digits: a file
\* whose declared hash differs from the digest of its fetched content only
\* in letter case is accepted and written.
C15_DigestComparedIgnoringCase ==
  \A i \in DOMAIN unit :
    (/\ unit[i] = "done"
     /\ Response(i).status = 200
     /\ EqualIgnoringCase(calculateSHA256(Content(i)), Entry(i).sha256)) =>
      /\ results[i] = Success(Entry(i).path)
      /\ WroteBy(i)

\* C16: a pass in which anything failed, one file of several included, ends
\* with a non-zero exit status; the status is zero only when nothing failed.
C16_AnyFailureIsNonZeroExit ==
  pc \in Terminal =>
    (exitCode = 0) =
      (pc # "Failed" /\ \A i \in DOMAIN results : results[i].success)

\* C17: a pass goes Idle -> ManifestFetched -> UpToDate, or Idle ->
\* ManifestFetched -> Transferring -> Reconciled; from Transferring no
\* terminal state but Reconciled is reached.  A pass that started mapper
\* calls ends Reconciled, or fails in saving the marker and nowhere else.
C17_TransferEndsReconciled ==
  (pc \in Terminal /\ unit # <<>>) =>
    \/ pc = "Reconciled"
    \/ pc = "Failed" /\ failure.kind = "marker write threw"

\* C18: a pass is one attempt: it fetches the manifest exactly once, and
\* it fetches each file entry of the manifest at most once, whether the
\* fetch succeeds or fails; a mapper call that started made one fetch.
C18_SingleAttempt ==
  /\ pc # "Idle" => manifestFetches = 1
  /\ \A i \in DOMAIN fetches :
       /\ fetches[i] <= 1
       /\ unit[i] # "pending" => fetches[i] = 1

\* a pass over more files than pMap runs at once ended with failed outcomes
C18_Witness ==
  /\ pc = "Reconciled"
  /\ Len(fetches) > CONCURRENCY
  /\ \E i \in DOMAIN results : ~results[i].success /\ fetches[i] = 1
  /\ \E i \in DOMAIN results : results[i].success /\ fetches[i] = 1

\* C19: the marker round trip: for every version string v, the empty string
\* included, getLocalVersion after a successful saveLocalVersion(v) returns
\* v, so that a following pass against version v is up to date.
C19_MarkerRoundTrip ==
  (pc = "Reconciled" /\ remoteManifest.version.type = "string") =>
    getLocalVersion(fs, TRUE) = remoteManifest.version

\* ============================================ the interactive installer
\* installer invocations modelled in one behaviour
MaxInstalls == 1

\* lines 30-46: the names of SKILLS.domain, .coordination and .utility
SKILLS ==
  <<"frontend-agent", "backend-agent", "mobile-agent", "pm-agent", "qa-agent",
    "workflow-guide", "orchestrator", "debug-agent", "commit">>

\* lines 48-54
PRESETS ==
  [fullstack |-> <<"frontend-agent", "backend-agent", "pm-agent", "qa-agent",
                   "debug-agent", "commit">>,
   frontend |-> <<"frontend-agent", "pm-agent", "qa-agent", "debug-agent",
                  "commit">>,
   backend |-> <<"backend-agent", "pm-agent", "qa-agent", "debug-agent",
                 "commit">>,
   mobile |-> <<"mobile-agent", "pm-agent", "qa-agent", "debug-agent",
                "commit">>,
   all |-> SKILLS]

\* what the user answers: the project type, and the skills picked when the
\* type is "custom"
ProjectTypes == {"frontend", "custom"}
CustomSelections == {<<"commit">>}

\* line 237 and line 76, relative to the working directory
sharedDir == ".agent/skills" \o "/_shared"
skillDir(skillName) == ".agent/skills" \o "/" \o skillName

\* a file to install is <<its folder below the skill's, its name>>
\* lines 238-243
SharedFiles ==
  << <<"", "reasoning-templates.md">>, <<"", "clarification-protocol.md">>,
     <<"", "context-loading.md">>, <<"", "skill-routing.md">> >>
\* lines 57-64: SKILL.md and resourceFiles
SkillFiles ==
  << <<"", "SKILL.md">>, <<"/resources", "execution-protocol.md">>,
     <<"/resources", "tech-stack.md">>, <<"/resources", "checklist.md">>,
     <<"/resources", "templates.md">>, <<"/resources", "error-playbook.md">> >>

\* lines 85 and 256: join(skillDir, file), join(sharedDir, file)
filePath(dir, file) == <<dir \o file[1], file[2]>>

\* the files installShared and then installSkill, skill after skill, go
\* through (lines 618-623)
RECURSIVE SkillTargets(_)
SkillTargets(selectedSkills) ==
  IF selectedSkills = <<>> THEN <<>>
  ELSE [k \in DOMAIN SkillFiles |->
          [kind |-> "skill",
           path |-> filePath(skillDir(Head(selectedSkills)), SkillFiles[k])]]
       \o SkillTargets(Tail(selectedSkills))
Targets(selectedSkills) ==
  [k \in DOMAIN SharedFiles |->
     [kind |-> "shared", path |-> filePath(sharedDir, SharedFiles[k])]]
  \o SkillTargets(selectedSkills)
AllTargets == Targets(PRESETS.all)

\* lines 79 and 252: the response to fetch(url); the URL of a file is
\* GITHUB_RAW followed by its path below .agent/skills
Fetched(path) == IF path \in DOMAIN serve THEN serve[path] ELSE NotFound

\* the registry serves every file of every skill, or the shared files and
\* the SKILL.md of every skill
InstallWorlds == {"full", "bare"}
InstallServe(world) ==
  [p \in {AllTargets[k].path : k \in DOMAIN AllTargets} |->
     IF world = "full" \/ p[1] = sharedDir \/ p[2] = "SKILL.md"
       THEN Ok(X) ELSE NotFound]

\* lines 569-618: main() is called, the user answers, and installShared
\* creates the shared folder and runs to its first `await fetch(url)`
main ==
  /\ pc \in {"Idle"} \cup Terminal
  /\ install.state # "running"
  /\ run < MaxRuns
  /\ install.count < MaxInstalls
  /\ \E projectType \in ProjectTypes, selected \in CustomSelections :
       LET selectedSkills == IF projectType = "custom" THEN selected
                             ELSE PRESETS[projectType]
       IN install' = [state |-> "running", todo |-> Targets(selectedSkills),
                      marker0 |-> Marker(fs), exitCode |-> -1,
                      count |-> install.count + 1]
  /\ run' = run + 1
  /\ dirs' = dirs \cup {sharedDir}
  /\ UNCHANGED <<registry, fs, pc, failure, exitCode, remoteManifest,
                 localVersion, readThrew, unit, results, fetches,
                 manifestFetches, written, fs0, prev>>

\* lines 585-588 and 604-607: the user cancels a prompt
mainCancelled ==
  /\ pc \in {"Idle"} \cup Terminal
  /\ install.state # "running"
  /\ run < MaxRuns
  /\ install.count < MaxInstalls
  /\ install' = [state |-> "cancelled", todo |-> <<>>, marker0 |-> Marker(fs),
                 exitCode |-> 0, count |-> install.count + 1]
  /\ run' = run + 1
  /\ UNCHANGED <<registry, fs, dirs, pc, failure, exitCode, remoteManifest,
                 localVersion, readThrew, unit, results, fetches,
                 manifestFetches, written, fs0, prev>>

UpdateFrame == UNCHANGED <<registry, run, pc, failure, exitCode, remoteManifest,
                           localVersion, readThrew, unit, results, fetches,
                           manifestFetches, written, fs0, prev>>

\* the loop goes on to its next file, or main() prints "Done!" and returns
Advance ==
  install' = [install EXCEPT
                !.todo = Tail(install.todo),
                !.state = IF Len(install.todo) = 1 THEN "done" ELSE "running",
                !.exitCode = IF Len(install.todo) = 1 THEN 0 ELSE -1]

\* one turn of the loop of installShared or installSkill: the file is
\* fetched and, if the response is ok, written
Install(target) ==
  /\ IF Fetched(target.path).status # 200
       THEN UNCHANGED <<fs, dirs>>
       ELSE /\ fs' = (target.path :> utf8Decode(Fetched(target.path).body)) @@ fs
            /\ dirs' = dirs \cup {dirname(target.path)}
  /\ Advance
  /\ UpdateFrame

\* lines 249-256: installShared fetches and writes its next file
installShared ==
  /\ install.state = "running"
  /\ Head(install.todo).kind = "shared"
  /\ Install(Head(install.todo))

\* (mutant) installSkill also saves the version of what it installed
installSkill_stamped ==
  /\ install.state = "running"
  /\ Head(install.todo).kind = "skill"
  /\ fs' = (versionFile :> VersionDocument(manifest.version)) @@ fs
  /\ dirs' = dirs \cup {dirname(versionFile)}
  /\ Advance
  /\ UpdateFrame

\* lines 66-70 and 79-91: installSkill keeps its next file if the HEAD
\* request for it is ok (SKILL.md is always kept), fetches and writes it
installSkill ==
  /\ install.state = "running"
  /\ Head(install.todo).kind = "skill"
  /\ Install(Head(install.todo))

\* lines 637-641: a fetch rejects, or mkdirSync or writeFileSync throws;
\* main() catches, reports and exits with status 1
installThrows ==
  /\ install.state = "running"
  /\ install' = [install EXCEPT !.state = "failed", !.todo = <<>>,
                                !.exitCode = 1]
  /\ \E made \in {dirs, dirs \cup {dirname(Head(install.todo).path)}} :
       dirs' = made
  /\ UNCHANGED fs
  /\ UpdateFrame

\* the registry and the installation the installer is run against
InstallRegistries ==
  { [ps |-> <<FreePathList[2], FreePathList[3]>>,
     pub |-> (FreePathList[2] :> Intact) @@ (FreePathList[3] :> Missing)],
    [ps |-> <<FreePathList[2]>>, pub |-> (FreePathList[2] :> Altered)] }
InstallInstallations ==
  { inst \in Installations :
      \/ inst.version = Str("1.2.0")
      \/ inst.version = Str("1.3.0") /\ inst.marker = <<>> }

InitInstall ==
  \E inst \in InstallInstallations, reg \in InstallRegistries,
     world \in InstallWorlds :
    /\ manifest = ManifestOf(inst.version, reg.ps, reg.pub)
    /\ serve = InstallServe(world) @@ ServeOf(reg.ps, reg.pub)
    /\ InitLocal(inst.marker)

NextInstall ==
  \/ Next
  \/ main
  \/ mainCancelled
  \/ installShared
  \/ installSkill
  \/ installThrows

SpecInstall == InitInstall /\ [][NextInstall]_vars

\* C20: only update() changes the marker: the interactive installer (main,
\* installShared, installSkill), whatever is selected and whatever it
\* downloads or skips, leaves the marker file as it found it, and no file
\* it can install is the marker file.
C20_InstallerLeavesMarker ==
  /\ install.state # "none" => Marker(fs) = install.marker0
  /\ \A k \in DOMAIN AllTargets : AllTargets[k].path # versionFile

\* an installation that wrote the files of a skill ended, with a marker of
\* an earlier update in place
C20_Witness ==
  /\ install.state = "done"
  /\ Marker(fs) = <<VersionDocument(Str("1.2.0"))>>
  /\ filePath(skillDir("commit"), SkillFiles[1]) \in DOMAIN fs
  /\ filePath(sharedDir, SharedFiles[1]) \in DOMAIN fs
====
